---- MODULE Spec2Model ----
(***************************************************************************)
(* Storefront engines of the Google Store clone: the product catalog      *)
(* (ProductAPI, api.js) and the persisted shopping cart (Cart and          *)
(* CartManager, cart.js), started by GoogleStoreApp.initializeServices.    *)
(*                                                                         *)
(* Conventions.  Time is counted in days (24 h = 1, the cart's expiry is   *)
(* 30).  Numbers of the raw product feed are fixed-point hundredths, so    *)
(* that a normalized price is in cents and a stock is an integer count.    *)
(* The addedAt/updatedAt stamps of a line item are not part of the state;  *)
(* savedAt of the persisted cart record and timestamp of the catalog       *)
(* cache record are.  A text (a product's name, a search query) is a       *)
(* sequence of one-character strings.  Storage writes are taken to         *)
(* succeed.                                                                *)
(***************************************************************************)
EXTENDS Integers, Sequences, FiniteSets, TLC

VARIABLES
  now,        \* wall clock, in days
  products,   \* ProductAPI.products: the in-memory normalized catalog
  cache,      \* ProductAPI.cache: the record read by the constructor
  cacheStore, \* localStorage['google_store_products']
  isLoading,  \* ProductAPI.isLoading
  inflight,   \* number of loadProducts calls suspended on their fetch
  loaded,     \* what the loadProducts call that finished last returned or
              \* threw: "none" before any, "products", or an error
  items,      \* Cart.items: the line items, in order
  stored,     \* localStorage['google_store_cart']
  result,     \* what the last cart operation returned or threw
  notified,   \* the notifyListeners calls of the last cart operation
  phase,      \* of the page: "unloaded", "constructed" (the modules' singletons
              \* exist), "running" (initializeServices has run)
  answer,     \* the last catalog query (searchProducts, sortProducts,
              \* paginateProducts, advancedSearch): its arguments and what it
              \* returned or threw, or that it is suspended on its load
  otherItems, \* Cart.items of a second tab open on the same storage
  lastWriter  \* the tab whose cart completed a mutating operation last:
              \* "this" or "other"

vars == <<now, products, cache, cacheStore, isLoading, inflight, loaded,
          items, stored, result, notified, phase, answer, otherItems,
          lastWriter>>

catalogVars == <<products, cache, cacheStore, isLoading, inflight, loaded>>
cartVars == <<items, stored, result, notified>>
tabVars == <<otherItems, lastWriter>>

(***************************************************************************)
(* Program constants                                                       *)
(***************************************************************************)
MAX_QUANTITY == 10
\* Amounts are in cents, the tax rate in percent
TAX_RATE == 8
SHIPPING_THRESHOLD == 5000
SHIPPING_COST == 999
CART_MAX_AGE_DAYS == 30
CACHE_DURATION == 1

(***************************************************************************)
(* Bounds of the model                                                     *)
(***************************************************************************)
MaxNow == 31
MaxEarly == 2
MaxLineQuantity == 6
MaxInflight == 2
MaxPage == 4
MaxPerPage == 3

ProductIds == {"p1", "p2"}
\* The instants the clock visits: the first days, and the days around the
\* cart record's expiry
Instants == (0..MaxEarly) \cup (CART_MAX_AGE_DAYS..MaxNow)
AddQuantities == {0, 2, 4}
RemoveQuantities == {-2, 0, 2, 10}
UpdateQuantities == {-1, 0, 6, 11}

(***************************************************************************)
(* The raw feed.  A raw number is present (in hundredths) or missing.      *)
(***************************************************************************)
Num(c) == [k |-> "num", c |-> c]
Missing == [k |-> "missing", c |-> 0]
\* A string: c is the number its longest numeric prefix reads as (0 without
\* one), clean tells whether the whole string is that number
Str(c, clean) == [k |-> "str", c |-> c, clean |-> clean]

FeedA ==
  << [id |-> "p1", price |-> Num(1000), stock |-> Num(1200),
      rating |-> Num(450), popularity |-> Num(9000)],
     [id |-> "p2", price |-> Num(4999), stock |-> Num(500),
      rating |-> Num(400), popularity |-> Num(7000)] >>
FeedB ==
  << [id |-> "p1", price |-> Num(1000), stock |-> Num(300),
      rating |-> Num(450), popularity |-> Num(9000)],
     [id |-> "p2", price |-> Num(4999), stock |-> Missing,
      rating |-> Num(400), popularity |-> Num(7000)] >>
FeedC ==
  << [id |-> "p1", price |-> Num(1000), stock |-> Num(50),
      rating |-> Num(450), popularity |-> Num(9000)] >>

\* What a fetch of the feed ends with: a document, or a failure (network
\* error, HTTP status, unparsable or malformed document)
Fetched(feed) == [ok |-> TRUE, feed |-> feed]
FetchFailed == [ok |-> FALSE, feed |-> <<>>]
FetchOutcomes == {Fetched(FeedA), Fetched(FeedB), Fetched(FeedC), FetchFailed}

\* parseInt(x) || 0: the integer part of the number or of the numeric prefix
ParseIntOr0(v) ==
  IF v.k \in {"num", "str"}
    THEN IF v.c >= 0 THEN v.c \div 100 ELSE -((-v.c) \div 100)
    ELSE 0

\* parseFloat(x) || 0, in hundredths
ParseFloatOr0(v) == IF v.k \in {"num", "str"} THEN v.c ELSE 0

\* What (x || 0) is in a comparison with a number: NaN for a string that is
\* not a number, and then every comparison is false
IsNumber(v) == v.k # "str" \/ v.clean
NumberOf(v) == IF v.k = "missing" THEN 0 ELSE v.c

\* (x || 0) > 0
TruthyPositive(v) == IsNumber(v) /\ NumberOf(v) > 0

\* isNewProduct: (popularity || 0) >= 85
isNewProduct(popularity) == IsNumber(popularity) /\ NumberOf(popularity) >= 8500

\* isOnSale: (rating || 0) >= 4.5 && (price || 0) > 100
isOnSale(price, rating) ==
  /\ IsNumber(rating) /\ NumberOf(rating) >= 450
  /\ IsNumber(price) /\ NumberOf(price) > 10000

\* Text is a sequence of one-character strings.  The defaults that
\* processProducts gives a record without a name or a category:
UnknownProduct ==
  <<"U", "n", "k", "n", "o", "w", "n", " ", "P", "r", "o", "d", "u", "c", "t">>
Accessories == <<"a", "c", "c", "e", "s", "s", "o", "r", "i", "e", "s">>

\* product[f] || default: the default for an absent or empty field
FieldOr(raw, f, default) ==
  IF f \in DOMAIN raw /\ raw[f] # <<>> THEN raw[f] ELSE default

\* price and rating in hundredths, stock and popularity whole numbers; specs
\* is the sequence of the spec values
processProduct(raw) ==
  [ id         |-> raw.id,
    name        |-> FieldOr(raw, "name", UnknownProduct),
    description |-> FieldOr(raw, "description", <<>>),
    category    |-> FieldOr(raw, "category", Accessories),
    specs       |-> FieldOr(raw, "specs", <<>>),
    price      |-> ParseFloatOr0(raw.price),
    rating     |-> ParseFloatOr0(raw.rating),
    stock      |-> ParseIntOr0(raw.stock),
    popularity |-> ParseIntOr0(raw.popularity),
    inStock    |-> TruthyPositive(raw.stock),
    isNew      |-> isNewProduct(raw.popularity),
    onSale     |-> isOnSale(raw.price, raw.rating) ]

processProducts(feed) == [i \in 1..Len(feed) |-> processProduct(feed[i])]

(***************************************************************************)
(* Catalog: lookups, cache record, loadProducts                            *)
(***************************************************************************)
NoCache == [present |-> FALSE, products |-> <<>>, timestamp |-> 0]
CacheRecord(ps, t) == [present |-> TRUE, products |-> ps, timestamp |-> t]

\* Array.prototype.findIndex over a sequence of records with an id field,
\* 1-based; 0 stands for -1
RECURSIVE FindFrom(_, _, _)
FindFrom(s, id, i) ==
  IF i > Len(s) THEN 0
  ELSE IF s[i].id = id THEN i
  ELSE FindFrom(s, id, i + 1)

findIndex(s, id) == FindFrom(s, id, 1)

\* getProductById: the first product with that id, here as its index (0: null)
getProductById(ps, id) == findIndex(ps, id)

\* loadCache: a record older than the cache duration is removed and not used
loadCache(store, t) ==
  IF ~store.present THEN [cache |-> NoCache, store |-> store]
  ELSE IF t - store.timestamp > CACHE_DURATION
    THEN [cache |-> NoCache, store |-> NoCache]
    ELSE [cache |-> store, store |-> store]

\* Variant: a record of exactly the cache duration still counts as valid
isCacheValidThrough(c, t) == c.present /\ (t - c.timestamp) <= CACHE_DURATION
isCacheValid(c, t) == c.present /\ (t - c.timestamp) < CACHE_DURATION

\* The synchronous part of loadProducts, up to its return or to the fetch:
\* the products it leaves in memory and whether a fetch was started.
loadProductsCall(ps, c, t, forceRefresh) ==
  IF ~forceRefresh /\ isCacheValid(c, t)
    THEN [products |-> c.products, fetch |-> FALSE]
    ELSE [products |-> ps, fetch |-> TRUE]

(***************************************************************************)
(* Cart: line items and the persisted record                               *)
(***************************************************************************)
\* shape: "cart" for what saveToStorage writes, "unparsable" for a blob
\* JSON.parse rejects, "noItemsArray" for a blob whose items is no array
NoRecord == [present |-> FALSE, shape |-> "cart", items |-> <<>>, savedAt |-> 0]
CartRecord(its, t) ==
  [present |-> TRUE, shape |-> "cart", items |-> its, savedAt |-> t]
CorruptRecord(shape) ==
  [present |-> TRUE, shape |-> shape, items |-> <<>>, savedAt |-> 0]

\* The snapshot of catalog fields that addItem stores in a new line
Snapshot(product) ==
  [id |-> product.id, price |-> product.price, inStock |-> product.inStock]

Line(id, quantity, snap) == [id |-> id, quantity |-> quantity, product |-> snap]

getItemQuantity(its, productId) ==
  LET i == findIndex(its, productId) IN IF i = 0 THEN 0 ELSE its[i].quantity

\* Array.prototype.splice(i, 1)
RemoveAt(s, i) == SubSeq(s, 1, i - 1) \o SubSeq(s, i + 1, Len(s))

Max(a, b) == IF a >= b THEN a ELSE b

EmptyReport ==
  [isValid |-> TRUE, invalidItems |-> <<>>, outOfStockItems |-> <<>>,
   updatedItems |-> <<>>]

\* What a call returned or threw: a value, and for validateCart its report
Returned(value, report) == [value |-> value, report |-> report]

\* What an operation leaves: the line items, what it returned or threw,
\* whether it called saveToStorage, and its notifyListeners calls.
Outcome(its, res, save, events) ==
  [items |-> its, result |-> Returned(res, EmptyReport), save |-> save,
   events |-> events]

\* Variant: a failure that loses the lines instead of leaving them
ThrownEmptied(its, err) == Outcome(<<>>, err, FALSE, <<>>)
Thrown(its, err) == Outcome(its, err, FALSE, <<>>)

\* Variant: a new line is put in front of the others
addItemPrepending(its, ps, productId, quantity) ==
  LET pi == getProductById(ps, productId)
      newQuantity == getItemQuantity(its, productId) + quantity
      existingItemIndex == findIndex(its, productId)
  IN
  IF quantity < 1 THEN Thrown(its, "InvalidArgumentError")
  ELSE IF pi = 0 THEN Thrown(its, "ProductNotFoundError")
  ELSE IF ~ps[pi].inStock THEN Thrown(its, "OutOfStockError")
  ELSE IF newQuantity > ps[pi].stock THEN Thrown(its, "StockExceededError")
  ELSE IF newQuantity > MAX_QUANTITY THEN Thrown(its, "QuantityLimitError")
  ELSE IF existingItemIndex > 0
    THEN Outcome([its EXCEPT ![existingItemIndex].quantity = newQuantity],
                 "true", TRUE, <<"add">>)
    ELSE Outcome(<<Line(ps[pi].id, quantity, <<Snapshot(ps[pi])>>)>> \o its,
                 "true", TRUE, <<"add">>)

\* Variant: an existing line takes the requested quantity, not the sum
addItemOverwriting(its, ps, productId, quantity) ==
  LET pi == getProductById(ps, productId)
      newQuantity == getItemQuantity(its, productId) + quantity
      existingItemIndex == findIndex(its, productId)
  IN
  IF quantity < 1 THEN Thrown(its, "InvalidArgumentError")
  ELSE IF pi = 0 THEN Thrown(its, "ProductNotFoundError")
  ELSE IF ~ps[pi].inStock THEN Thrown(its, "OutOfStockError")
  ELSE IF newQuantity > ps[pi].stock THEN Thrown(its, "StockExceededError")
  ELSE IF newQuantity > MAX_QUANTITY THEN Thrown(its, "QuantityLimitError")
  ELSE IF existingItemIndex > 0
    THEN Outcome([its EXCEPT ![existingItemIndex].quantity = quantity],
                 "true", TRUE, <<"add">>)
    ELSE Outcome(Append(its, Line(ps[pi].id, quantity, <<Snapshot(ps[pi])>>)),
                 "true", TRUE, <<"add">>)

addItem(its, ps, productId, quantity) ==
  LET pi == getProductById(ps, productId)
      currentQuantity == getItemQuantity(its, productId)
      newQuantity == currentQuantity + quantity
      existingItemIndex == findIndex(its, productId)
  IN
  IF quantity < 1 THEN Thrown(its, "InvalidArgumentError")
  ELSE IF pi = 0 THEN Thrown(its, "ProductNotFoundError")
  ELSE IF ~ps[pi].inStock THEN Thrown(its, "OutOfStockError")
  ELSE IF newQuantity > ps[pi].stock THEN Thrown(its, "StockExceededError")
  ELSE IF newQuantity > MAX_QUANTITY THEN Thrown(its, "QuantityLimitError")
  ELSE IF existingItemIndex > 0
    THEN Outcome([its EXCEPT ![existingItemIndex].quantity = newQuantity],
                 "true", TRUE, <<"add">>)
    ELSE Outcome(Append(its, Line(ps[pi].id, quantity, <<Snapshot(ps[pi])>>)),
                 "true", TRUE, <<"add">>)

\* Variant: the change is left in memory only
removeItemUnsaved(its, productId, quantity) ==
  LET itemIndex == findIndex(its, productId) IN
  IF itemIndex = 0 THEN Outcome(its, "false", FALSE, <<>>)
  ELSE IF quantity = <<>> \/ quantity[1] >= its[itemIndex].quantity
    THEN Outcome(RemoveAt(its, itemIndex), "true", FALSE, <<"remove">>)
    ELSE Outcome([its EXCEPT ![itemIndex].quantity = @ - quantity[1]],
                 "true", FALSE, <<"update">>)

\* Variant: only a quantity above the line's deletes the line
removeItemAbove(its, productId, quantity) ==
  LET itemIndex == findIndex(its, productId) IN
  IF itemIndex = 0 THEN Outcome(its, "false", FALSE, <<>>)
  ELSE IF quantity = <<>> \/ quantity[1] > its[itemIndex].quantity
    THEN Outcome(RemoveAt(its, itemIndex), "true", TRUE, <<"remove">>)
    ELSE Outcome([its EXCEPT ![itemIndex].quantity = @ - quantity[1]],
                 "true", TRUE, <<"update">>)

\* quantity is given as a sequence: <<>> for the default null, <<q>> otherwise
removeItem(its, productId, quantity) ==
  LET itemIndex == findIndex(its, productId) IN
  IF itemIndex = 0 THEN Outcome(its, "false", FALSE, <<>>)
  ELSE IF quantity = <<>> \/ quantity[1] >= its[itemIndex].quantity
    THEN Outcome(RemoveAt(its, itemIndex), "true", TRUE, <<"remove">>)
    ELSE Outcome([its EXCEPT ![itemIndex].quantity = @ - quantity[1]],
                 "true", TRUE, <<"update">>)

\* Variant: no check of the quantity against the maximum or the stock
updateItemQuantityUnchecked(its, ps, productId, quantity) ==
  LET itemIndex == findIndex(its, productId) IN
  IF quantity < 0 THEN Thrown(its, "InvalidArgumentError")
  ELSE IF itemIndex = 0 THEN Thrown(its, "ItemNotFoundError")
  ELSE IF quantity = 0 THEN removeItem(its, productId, <<>>)
  ELSE Outcome([its EXCEPT ![itemIndex].quantity = quantity],
               "true", TRUE, <<"update">>)

updateItemQuantity(its, ps, productId, quantity) ==
  LET itemIndex == findIndex(its, productId)
      pi == getProductById(ps, productId)
  IN
  IF quantity < 0 THEN Thrown(its, "InvalidArgumentError")
  ELSE IF quantity > MAX_QUANTITY THEN Thrown(its, "QuantityLimitError")
  ELSE IF itemIndex = 0 THEN Thrown(its, "ItemNotFoundError")
  ELSE IF pi > 0 /\ quantity > ps[pi].stock THEN Thrown(its, "StockExceededError")
  ELSE IF quantity = 0 THEN removeItem(its, productId, <<>>)
  ELSE Outcome([its EXCEPT ![itemIndex].quantity = quantity],
               "true", TRUE, <<"update">>)

\* Variant: the cart is emptied in memory only
clearCartUnsaved(its) == Outcome(<<>>, "undefined", FALSE, <<"clear">>)
clearCart(its) == Outcome(<<>>, "undefined", TRUE, <<"clear">>)

\* Variant: a round that sums the two quantities
mergeOneSumming(its, newItem) ==
  LET existingIndex == findIndex(its, newItem.id) IN
  IF existingIndex > 0
    THEN [its EXCEPT ![existingIndex].quantity = @ + newItem.quantity]
    ELSE Append(its, newItem)

\* One round of mergeCart's forEach
mergeOne(its, newItem) ==
  LET existingIndex == findIndex(its, newItem.id) IN
  IF existingIndex > 0
    THEN [its EXCEPT ![existingIndex].quantity = Max(@, newItem.quantity)]
    ELSE Append(its, newItem)

RECURSIVE mergeAll(_, _)
mergeAll(its, cartData) ==
  IF cartData = <<>> THEN its
  ELSE mergeAll(mergeOne(its, Head(cartData)), Tail(cartData))

\* cartData is [isArray, items]: anything that is not an array returns at once
mergeCart(its, cartData) ==
  IF ~cartData.isArray THEN Outcome(its, "undefined", FALSE, <<>>)
  ELSE Outcome(mergeAll(its, cartData.items), "undefined", TRUE, <<"merge">>)

\* Variant: the items are assigned before the shape is looked at
importCartUnchecked(its, cartData) ==
  IF ~cartData.isObject \/ ~cartData.isArray
    THEN Outcome(cartData.items, "false", FALSE, <<>>)
    ELSE Outcome(cartData.items, "true", TRUE, <<"import">>)

\* cartData is [isObject, isArray, items]: null/undefined, or an object whose
\* items field is or is not an array.  The thrown error is caught inside.
importCart(its, cartData) ==
  IF ~cartData.isObject \/ ~cartData.isArray
    THEN Outcome(its, "false", FALSE, <<>>)
    ELSE Outcome(cartData.items, "true", TRUE, <<"import">>)

\* Variant: a backup that holds the first line only
exportCartFirstOnly(its) ==
  [isObject |-> TRUE, isArray |-> TRUE, items |-> IF its = <<>> THEN <<>> ELSE <<Head(its)>>]
exportCart(its) == [isObject |-> TRUE, isArray |-> TRUE, items |-> its]

(***************************************************************************)
(* getCartItems, getCartSummary                                            *)
(***************************************************************************)
\* The product a line is priced by: the live one or else the line's snapshot;
\* <<>> when there is neither
PricedBy(cartItem, ps) ==
  LET pi == getProductById(ps, cartItem.id) IN
  IF pi > 0 THEN <<ps[pi]>> ELSE cartItem.product

\* getCartItems: the lines that have a product, each with its subtotal
getCartItems(its, ps) ==
  LET priced == SelectSeq(its, LAMBDA l : PricedBy(l, ps) # <<>>) IN
  [i \in 1..Len(priced) |->
     [id |-> priced[i].id,
      quantity |-> priced[i].quantity,
      subtotal |-> priced[i].quantity * PricedBy(priced[i], ps)[1].price]]

\* reduce((sum, item) => sum + item[field], 0)
RECURSIVE SumOf(_, _)
SumOf(s, field) ==
  IF s = <<>> THEN 0 ELSE Head(s)[field] + SumOf(Tail(s), field)

\* Math.round(x * 100) / 100 of a non-negative amount x given in hundredths
\* of a cent, as cents
RoundToCents(x) == (x + 50) \div 100

\* Variant: free shipping only above the threshold
getCartSummaryAbove(its, ps) ==
  LET lines == getCartItems(its, ps)
      subtotal == SumOf(lines, "subtotal")
      shippingCost == IF subtotal > SHIPPING_THRESHOLD THEN 0 ELSE SHIPPING_COST
      taxAmount == subtotal * TAX_RATE
      total == subtotal * 100 + shippingCost * 100 + taxAmount
  IN [subtotal |-> RoundToCents(subtotal * 100),
      taxAmount |-> RoundToCents(taxAmount),
      shippingCost |-> RoundToCents(shippingCost * 100),
      total |-> RoundToCents(total),
      itemCount |-> SumOf(lines, "quantity"),
      items |-> Len(lines),
      freeShippingEligible |-> subtotal > SHIPPING_THRESHOLD,
      freeShippingRemaining |-> Max(0, SHIPPING_THRESHOLD - subtotal)]

\* getCartSummary: subtotal and shippingCost in cents; taxAmount and total
\* are computed in hundredths of a cent and rounded at the end
getCartSummary(its, ps) ==
  LET lines == getCartItems(its, ps)
      subtotal == SumOf(lines, "subtotal")
      shippingCost == IF subtotal >= SHIPPING_THRESHOLD THEN 0 ELSE SHIPPING_COST
      taxAmount == subtotal * TAX_RATE
      total == subtotal * 100 + shippingCost * 100 + taxAmount
  IN [subtotal |-> RoundToCents(subtotal * 100),
      taxAmount |-> RoundToCents(taxAmount),
      shippingCost |-> RoundToCents(shippingCost * 100),
      total |-> RoundToCents(total),
      itemCount |-> SumOf(lines, "quantity"),
      items |-> Len(lines),
      freeShippingEligible |-> subtotal >= SHIPPING_THRESHOLD,
      freeShippingRemaining |-> Max(0, SHIPPING_THRESHOLD - subtotal)]

(***************************************************************************)
(* validateCart                                                            *)
(***************************************************************************)
\* Variant: a line above the stock is reported and kept as it is
validateOneUnclamped(acc, cartItem, ps) ==
  LET pi == getProductById(ps, cartItem.id) IN
  IF pi = 0
    THEN [acc EXCEPT !.report.invalidItems = Append(@, cartItem.id)]
  ELSE IF ~ps[pi].inStock
    THEN [acc EXCEPT !.report.outOfStockItems = Append(@, cartItem.id)]
  ELSE IF cartItem.quantity > ps[pi].stock
    THEN [acc EXCEPT
            !.report.updatedItems = Append(@, cartItem.id),
            !.valid = Append(@, cartItem)]
  ELSE [acc EXCEPT !.valid = Append(@, cartItem)]

\* One round of validateCart's loop over a line: acc is [valid, report]
validateOne(acc, cartItem, ps) ==
  LET pi == getProductById(ps, cartItem.id) IN
  IF pi = 0
    THEN [acc EXCEPT !.report.invalidItems = Append(@, cartItem.id)]
  ELSE IF ~ps[pi].inStock
    THEN [acc EXCEPT !.report.outOfStockItems = Append(@, cartItem.id)]
  ELSE IF cartItem.quantity > ps[pi].stock
    THEN [acc EXCEPT
            !.report.updatedItems = Append(@, cartItem.id),
            !.valid = Append(@, [cartItem EXCEPT !.quantity = ps[pi].stock])]
  ELSE [acc EXCEPT !.valid = Append(@, cartItem)]

RECURSIVE validateLoop(_, _, _)
validateLoop(acc, its, ps) ==
  IF its = <<>> THEN acc
  ELSE validateLoop(validateOne(acc, Head(its), ps), Tail(its), ps)

\* Variant: a clamped line invalidates the cart too
validateCartStrict(its, ps) ==
  LET acc == validateLoop([valid |-> <<>>, report |-> EmptyReport], its, ps)
      dropped == \/ acc.report.invalidItems # <<>>
                 \/ acc.report.outOfStockItems # <<>>
                 \/ acc.report.updatedItems # <<>>
  IN [items  |-> acc.valid,
      report |-> [acc.report EXCEPT !.isValid = ~dropped],
      events |-> IF dropped THEN <<"validation">> ELSE <<>>]

\* validateCart: the kept lines and the report
validateCart(its, ps) ==
  LET acc == validateLoop([valid |-> <<>>, report |-> EmptyReport], its, ps)
      dropped == acc.report.invalidItems # <<>> \/ acc.report.outOfStockItems # <<>>
  IN [items  |-> acc.valid,
      report |-> [acc.report EXCEPT !.isValid = ~dropped],
      events |-> IF dropped THEN <<"validation">> ELSE <<>>]

(***************************************************************************)
(* Catalog queries: searchProducts, filterProducts, sortProducts,          *)
(* paginateProducts, getSearchFacets, advancedSearch                       *)
(***************************************************************************)
ITEMS_PER_PAGE == 12

\* String.prototype.toLowerCase over the letters the model's texts use
ToLowerChar(c) ==
  CASE c = "P" -> "p" [] c = "U" -> "u" [] c = "X" -> "x" [] c = "N" -> "n"
    [] OTHER -> c
toLowerCase(text) == [i \in 1..Len(text) |-> ToLowerChar(text[i])]

\* Array.prototype.join(' ')
RECURSIVE JoinWithSpaces(_)
JoinWithSpaces(texts) ==
  IF texts = <<>> THEN <<>>
  ELSE IF Len(texts) = 1 THEN texts[1]
  ELSE texts[1] \o <<" ">> \o JoinWithSpaces(Tail(texts))

\* trim().split(/\s+/): the maximal runs without a space, in order; word is
\* the run being read
RECURSIVE SplitFrom(_, _, _)
SplitFrom(text, i, word) ==
  IF i > Len(text) THEN (IF word = <<>> THEN <<>> ELSE <<word>>)
  ELSE IF text[i] = " "
    THEN (IF word = <<>> THEN <<>> ELSE <<word>>) \o SplitFrom(text, i + 1, <<>>)
    ELSE SplitFrom(text, i + 1, Append(word, text[i]))

\* split(' '): the pieces between single spaces, empty ones kept
RECURSIVE SplitKeeping(_, _, _)
SplitKeeping(text, i, word) ==
  IF i > Len(text) THEN <<word>>
  ELSE IF text[i] = " " THEN <<word>> \o SplitKeeping(text, i + 1, <<>>)
  ELSE SplitKeeping(text, i + 1, Append(word, text[i]))

\* String.prototype.includes
includes(text, term) ==
  \E i \in 0..(Len(text) - Len(term)) : SubSeq(text, i + 1, i + Len(term)) = term

\* [name, description, category, ...spec values].join(' ').toLowerCase()
searchableText(product) ==
  toLowerCase(JoinWithSpaces(
    <<product.name, product.description, product.category>>
      \o SplitKeeping(JoinWithSpaces(product.specs), 1, <<>>)))

\* Variant: a product matches when one of the terms is found
searchProductsAnyTerm(ps, query) ==
  LET searchTerms == SplitFrom(toLowerCase(query), 1, <<>>) IN
  IF searchTerms = <<>> THEN ps
  ELSE SelectSeq(ps, LAMBDA product :
         \E k \in 1..Len(searchTerms) :
           includes(searchableText(product), searchTerms[k]))

\* searchProducts: a blank query returns the whole catalog
searchProducts(ps, query) ==
  LET searchTerms == SplitFrom(toLowerCase(query), 1, <<>>) IN
  IF searchTerms = <<>> THEN ps
  ELSE SelectSeq(ps, LAMBDA product :
         \A k \in 1..Len(searchTerms) :
           includes(searchableText(product), searchTerms[k]))

\* filters: categories is a sequence of categories (<<>>: none asked for);
\* priceMin, priceMax and rating are <<>> for undefined or <<v>>
filterProducts(ps, filters) ==
  SelectSeq(ps, LAMBDA product :
    /\ filters.categories # <<>> =>
         \E k \in 1..Len(filters.categories) :
           filters.categories[k] = product.category
    /\ filters.priceMin # <<>> => product.price >= filters.priceMin[1]
    /\ filters.priceMax # <<>> => product.price <= filters.priceMax[1]
    /\ filters.rating # <<>> => product.rating >= filters.rating[1]
    /\ filters.inStock => product.inStock
    /\ filters.isNew => product.isNew
    /\ filters.onSale => product.onSale)

\* The collation order of the characters of the model's texts
CollationOrder ==
  <<" ", "a", "c", "d", "e", "i", "k", "n", "o", "p", "r", "s", "t", "u",
    "w", "x">>
CharRank(c) ==
  CHOOSE i \in 1..Len(CollationOrder) : CollationOrder[i] = ToLowerChar(c)
\* Lower case sorts before upper case of the same letter
CaseRank(c) == IF ToLowerChar(c) = c THEN 0 ELSE 1

\* Lexicographic comparison of two texts by a rank of their characters:
\* negative, zero or positive
RECURSIVE LexCompare(_, _, _, _)
LexCompare(x, y, i, byCase) ==
  IF i > Len(x) /\ i > Len(y) THEN 0
  ELSE IF i > Len(x) THEN -1
  ELSE IF i > Len(y) THEN 1
  ELSE LET rx == IF byCase THEN CaseRank(x[i]) ELSE CharRank(x[i])
           ry == IF byCase THEN CaseRank(y[i]) ELSE CharRank(y[i])
       IN IF rx # ry THEN rx - ry ELSE LexCompare(x, y, i + 1, byCase)

\* String.prototype.localeCompare: the letters decide, then their case
localeCompare(x, y) ==
  LET letters == LexCompare(x, y, 1, FALSE) IN
  IF letters # 0 THEN letters ELSE LexCompare(x, y, 1, TRUE)

\* The comparator sortProducts hands to sort for a key
CompareBy(a, b, sortBy) ==
  CASE sortBy = "price" -> a.price - b.price
    [] sortBy = "rating" -> a.rating - b.rating
    [] sortBy = "name" -> localeCompare(a.name, b.name)
    [] OTHER -> a.popularity - b.popularity

\* Array.prototype.sort, which is stable: x goes before the first element
\* that compares greater
RECURSIVE InsertSorted(_, _, _, _)
InsertSorted(sorted, x, sortBy, i) ==
  IF i > Len(sorted) THEN Append(sorted, x)
  ELSE IF CompareBy(sorted[i], x, sortBy) > 0
    THEN SubSeq(sorted, 1, i - 1) \o <<x>> \o SubSeq(sorted, i, Len(sorted))
    ELSE InsertSorted(sorted, x, sortBy, i + 1)

RECURSIVE SortFrom(_, _, _)
SortFrom(sorted, rest, sortBy) ==
  IF rest = <<>> THEN sorted
  ELSE SortFrom(InsertSorted(sorted, Head(rest), sortBy, 1), Tail(rest), sortBy)

\* Array.prototype.reverse
Reverse(s) == [i \in 1..Len(s) |-> s[Len(s) + 1 - i]]

\* Variant: descending is a sort of its own, so that equal keys keep the
\* input order
sortProductsDirect(ps, sortBy, order) ==
  IF order = "desc"
    THEN Reverse(SortFrom(<<>>, Reverse(ps), sortBy))
    ELSE SortFrom(<<>>, ps, sortBy)

sortProducts(ps, sortBy, order) ==
  LET sorted == SortFrom(<<>>, ps, sortBy) IN
  IF order = "desc" THEN Reverse(sorted) ELSE sorted

Min(a, b) == IF a <= b THEN a ELSE b

\* Array.prototype.slice(start, end): a negative index counts from the end
slice(s, start, end) ==
  LET from == IF start < 0 THEN Max(Len(s) + start, 0) ELSE Min(start, Len(s))
      to == IF end < 0 THEN Max(Len(s) + end, 0) ELSE Min(end, Len(s))
  IN IF from >= to THEN <<>> ELSE SubSeq(s, from + 1, to)

\* Math.ceil(n / d) for n >= 0 and d # 0
CeilDiv(n, d) == IF d > 0 THEN (n + d - 1) \div d ELSE -(n \div (-d))

\* Variant: pages counted from 0
paginateProductsZeroBased(ps, page, perPage) ==
  LET startIndex == page * perPage
      endIndex == startIndex + perPage
  IN [items |-> slice(ps, startIndex, endIndex),
      page |-> page,
      perPage |-> perPage,
      total |-> Len(ps),
      totalPages |-> CeilDiv(Len(ps), perPage),
      hasNext |-> endIndex < Len(ps),
      hasPrev |-> page > 1]

paginateProducts(ps, page, perPage) ==
  LET startIndex == (page - 1) * perPage
      endIndex == startIndex + perPage
  IN [items |-> slice(ps, startIndex, endIndex),
      page |-> page,
      perPage |-> perPage,
      total |-> Len(ps),
      totalPages |-> CeilDiv(Len(ps), perPage),
      hasNext |-> endIndex < Len(ps),
      hasPrev |-> page > 1]

\* getPriceRange, in cents; Math.round(average * 100) / 100 rounds the
\* average to the cent
getPriceRange(ps) ==
  IF ps = <<>> THEN [min |-> 0, max |-> 0, average |-> 0]
  ELSE LET prices == {ps[i].price : i \in 1..Len(ps)} IN
       [min |-> CHOOSE m \in prices : \A x \in prices : m <= x,
        max |-> CHOOSE m \in prices : \A x \in prices : m >= x,
        average |-> (2 * SumOf(ps, "price") + Len(ps)) \div (2 * Len(ps))]

\* getSearchFacets: categories maps each category of ps to its count,
\* ratingCounts each of 1..5 to the products whose rating floors to it
getSearchFacets(ps) ==
  [categories |->
     [c \in {ps[i].category : i \in 1..Len(ps)} |->
        Len(SelectSeq(ps, LAMBDA product : product.category = c))],
   priceRange |-> getPriceRange(ps),
   ratingCounts |->
     [r \in 1..5 |->
        Len(SelectSeq(ps, LAMBDA product : product.rating \div 100 = r))],
   totalProducts |-> Len(ps),
   inStockCount |-> Len(SelectSeq(ps, LAMBDA product : product.inStock))]

\* What advancedSearch hands to filterProducts
FiltersOf(searchParams) ==
  [categories |-> searchParams.categories,
   priceMin |-> searchParams.priceMin,
   priceMax |-> searchParams.priceMax,
   rating |-> searchParams.rating,
   inStock |-> searchParams.inStock,
   isNew |-> searchParams.isNew,
   onSale |-> searchParams.onSale]

\* Variant: the facets describe the returned page
advancedSearchPageFacets(ps, searchParams) ==
  LET searched == IF searchParams.query # <<>>
                    THEN searchProducts(ps, searchParams.query) ELSE ps
      filtered == filterProducts(searched, FiltersOf(searchParams))
      sortBy == IF searchParams.sortBy = "" THEN "popularity" ELSE searchParams.sortBy
      sortOrder == IF searchParams.sortOrder = "" THEN "desc" ELSE searchParams.sortOrder
      sorted == sortProducts(filtered, sortBy, sortOrder)
      page == IF searchParams.page = 0 THEN 1 ELSE searchParams.page
      perPage == IF searchParams.perPage = 0 THEN ITEMS_PER_PAGE ELSE searchParams.perPage
      paginated == paginateProducts(sorted, page, perPage)
  IN [paginated |-> paginated, filters |-> FiltersOf(searchParams),
      facets |-> getSearchFacets(paginated.items)]

\* advancedSearch after its loadProducts has returned: ps is this.products.
\* In searchParams an absent query is <<>>, an absent sortBy or sortOrder "",
\* an absent (or zero) page or perPage 0.
advancedSearch(ps, searchParams) ==
  LET searched == IF searchParams.query # <<>>
                    THEN searchProducts(ps, searchParams.query) ELSE ps
      filtered == filterProducts(searched, FiltersOf(searchParams))
      sortBy == IF searchParams.sortBy = "" THEN "popularity" ELSE searchParams.sortBy
      sortOrder == IF searchParams.sortOrder = "" THEN "desc" ELSE searchParams.sortOrder
      sorted == sortProducts(filtered, sortBy, sortOrder)
      page == IF searchParams.page = 0 THEN 1 ELSE searchParams.page
      perPage == IF searchParams.perPage = 0 THEN ITEMS_PER_PAGE ELSE searchParams.perPage
      paginated == paginateProducts(sorted, page, perPage)
  IN [paginated |-> paginated, filters |-> FiltersOf(searchParams),
      facets |-> getSearchFacets(sorted)]

(***************************************************************************)
(* Persistence                                                             *)
(***************************************************************************)
\* saveToStorage: the record that setItem stores (setItem is taken to succeed)
saveToStorage(its, t) == CartRecord(its, t)

\* Variant: a record is discarded from the thirtieth day on
loadFromStorageAtThirty(rec, t) ==
  IF ~rec.present THEN [items |-> <<>>, save |-> FALSE, result |-> "undefined"]
  ELSE IF rec.shape # "cart"
    THEN [items |-> <<>>, save |-> TRUE, result |-> "undefined"]
  ELSE IF t - rec.savedAt >= CART_MAX_AGE_DAYS
    THEN [items |-> <<>>, save |-> TRUE, result |-> "undefined"]
  ELSE [items |-> rec.items, save |-> FALSE, result |-> "undefined"]

\* Variant: the error of a corrupted record is not caught
loadFromStorageUncaught(rec, t) ==
  IF ~rec.present THEN [items |-> <<>>, save |-> FALSE, result |-> "undefined"]
  ELSE IF rec.shape # "cart"
    THEN [items |-> <<>>, save |-> FALSE, result |-> "InvalidCartDataError"]
  ELSE IF t - rec.savedAt > CART_MAX_AGE_DAYS
    THEN [items |-> <<>>, save |-> TRUE, result |-> "undefined"]
  ELSE [items |-> rec.items, save |-> FALSE, result |-> "undefined"]

\* loadFromStorage: the items the constructor ends with, whether it saved,
\* and what it returned or threw (the error of a corrupted record is caught)
loadFromStorage(rec, t) ==
  IF ~rec.present THEN [items |-> <<>>, save |-> FALSE, result |-> "undefined"]
  ELSE IF rec.shape # "cart"
    THEN [items |-> <<>>, save |-> TRUE, result |-> "undefined"]
  ELSE IF t - rec.savedAt > CART_MAX_AGE_DAYS
    THEN [items |-> <<>>, save |-> TRUE, result |-> "undefined"]
  ELSE [items |-> rec.items, save |-> FALSE, result |-> "undefined"]

(***************************************************************************)
(* Inputs of the cart operations                                           *)
(***************************************************************************)
\* Lines as another tab or a backup file may hold them, each with the snapshot
\* addItem took of its product
ExternalSnapshot(id) ==
  Snapshot(processProducts(FeedA)[getProductById(processProducts(FeedA), id)])
ExternalLine(id, q) == Line(id, q, <<ExternalSnapshot(id)>>)
ExternalLists ==
  { <<>>,
    <<ExternalLine("p1", 5)>>,
    <<ExternalLine("p1", 5), ExternalLine("p2", 1)>>,
    <<ExternalLine("p2", 1), ExternalLine("p2", 5)>>,
    <<ExternalLine("p2", 5), ExternalLine("p1", 5)>> }

NotAnArray == [isArray |-> FALSE, items |-> <<>>]
MergeInputs == {NotAnArray} \cup {[isArray |-> TRUE, items |-> l] : l \in ExternalLists}

NoBlob == [isObject |-> FALSE, isArray |-> FALSE, items |-> <<>>]
BlobWithoutItems == [isObject |-> TRUE, isArray |-> FALSE, items |-> <<>>]
ImportInputs ==
  {NoBlob, BlobWithoutItems}
    \cup {[isObject |-> TRUE, isArray |-> TRUE, items |-> l] : l \in ExternalLists}

OptionalQuantities == {<<>>} \cup {<<q>> : q \in RemoveQuantities}

\* What a catalog query left: args and value are <<>> or a one-element
\* sequence; pending while advancedSearch waits for its loadProducts
NoAnswer == [op |-> "none", args |-> <<>>, pending |-> FALSE, value |-> <<>>]
Answered(op, args, value) ==
  [op |-> op, args |-> <<args>>, pending |-> FALSE, value |-> <<value>>]

(***************************************************************************)
(* Actions                                                                 *)
(***************************************************************************)
\* A cart operation's outcome applied to the cart and to storage
ApplyCart(o) ==
  /\ phase = "running"
  /\ items' = o.items
  /\ result' = o.result
  /\ notified' = o.events
  /\ stored' = IF o.save THEN saveToStorage(o.items, now) ELSE stored
  /\ lastWriter' = IF o.save \/ o.items # items THEN "this" ELSE lastWriter
  /\ UNCHANGED <<now, catalogVars, phase, answer, otherItems>>

AddItem(productId, quantity) ==
  \E o \in {addItem(items, products, productId, quantity)} : ApplyCart(o)

\* A negative quantity makes the line grow: the model stops at MaxLineQuantity
RemoveItem(productId, quantity) ==
  \E o \in {removeItem(items, productId, quantity)} :
    /\ \A i \in 1..Len(o.items) : o.items[i].quantity <= MaxLineQuantity
    /\ ApplyCart(o)

UpdateItemQuantity(productId, quantity) ==
  \E o \in {updateItemQuantity(items, products, productId, quantity)} : ApplyCart(o)

ClearCart == ApplyCart(clearCart(items))

MergeCart(cartData) == \E o \in {mergeCart(items, cartData)} : ApplyCart(o)

ImportCart(cartData) == \E o \in {importCart(items, cartData)} : ApplyCart(o)

\* importCart(exportCart()): a backup restored at once
RoundTrip == \E o \in {importCart(items, exportCart(items))} : ApplyCart(o)

ValidateCart ==
  \E v \in {validateCart(items, products)} :
  /\ phase = "running"
  /\ items' = v.items
  /\ result' = Returned("report", v.report)
  /\ notified' = v.events
  /\ stored' = saveToStorage(v.items, now)
  /\ lastWriter' = "this"
  /\ UNCHANGED <<now, catalogVars, phase, answer, otherItems>>

\* getCartSummary: the cart is left alone, the summary is what it returns
GetCartSummary ==
  /\ phase = "running"
  /\ result' = [value |-> "summary", report |-> EmptyReport,
                summary |-> getCartSummary(items, products)]
  /\ notified' = <<>>
  /\ UNCHANGED <<now, catalogVars, items, stored, phase, answer, tabVars>>

\* Variant: a call that finds a fetch in flight waits for that one
LoadProductsDeduplicated(forceRefresh) ==
  LET l == loadProductsCall(products, cache, now, forceRefresh) IN
  /\ phase = "running"
  /\ (l.fetch /\ inflight = 0) => inflight < MaxInflight
  /\ products' = l.products
  /\ isLoading' = (l.fetch \/ isLoading)
  /\ inflight' = IF l.fetch /\ inflight = 0 THEN inflight + 1 ELSE inflight
  /\ loaded' = IF l.fetch THEN loaded ELSE "products"
  /\ UNCHANGED <<now, cache, cacheStore, cartVars, phase, answer, tabVars>>

\* A loadProducts call of the running page (advancedSearch, the UI): served
\* from the cache, or suspended on its fetch
LoadProducts(forceRefresh) ==
  LET l == loadProductsCall(products, cache, now, forceRefresh) IN
  /\ phase = "running"
  /\ l.fetch => inflight < MaxInflight
  /\ products' = l.products
  /\ isLoading' = (l.fetch \/ isLoading)
  /\ inflight' = IF l.fetch THEN inflight + 1 ELSE inflight
  /\ loaded' = IF l.fetch THEN loaded ELSE "products"
  /\ UNCHANGED <<now, cache, cacheStore, cartVars, phase, answer, tabVars>>

\* A suspended loadProducts resumes with the outcome of its fetch.  On a
\* failure the catch block reads this.cache.products: with this.cache null
\* that read throws a TypeError, which is what the caller receives.
FetchEffects(outcome) ==
  /\ phase = "running"
  /\ inflight > 0
  /\ inflight' = inflight - 1
  /\ isLoading' = FALSE
  /\ IF outcome.ok
       THEN /\ products' = processProducts(outcome.feed)
            /\ cacheStore' = CacheRecord(processProducts(outcome.feed), now)
            /\ loaded' = "products"
       ELSE /\ products' = IF cache.present THEN cache.products ELSE products
            /\ loaded' = IF cache.present THEN "products" ELSE "TypeError"
            /\ UNCHANGED cacheStore
  /\ UNCHANGED <<now, cache, cartVars, phase, tabVars>>

\* The fetch of a loadProducts call that no advancedSearch is waiting for
FetchDone(outcome) ==
  /\ answer.pending => inflight > 1
  /\ FetchEffects(outcome)
  /\ UNCHANGED answer

\* A page load, first part: the modules' singletons are constructed.
\* ProductAPI's constructor reads the cache, Cart's loads from storage; what
\* the page before had in memory or in flight is gone.
Construct ==
  LET lc == loadCache(cacheStore, now)
      lf == loadFromStorage(stored, now)
  IN
  /\ cache' = lc.cache
  /\ cacheStore' = lc.store
  /\ products' = <<>>
  /\ inflight' = 0
  /\ isLoading' = FALSE
  /\ loaded' = "none"
  /\ items' = lf.items
  /\ stored' = IF lf.save THEN saveToStorage(lf.items, now) ELSE stored
  /\ result' = Returned(lf.result, EmptyReport)
  /\ notified' = <<>>
  /\ phase' = "constructed"
  /\ answer' = NoAnswer
  /\ lastWriter' = IF lf.save THEN "this" ELSE lastWriter
  /\ UNCHANGED <<now, otherItems>>

\* A page load, second part: initializeServices runs uiManager (whose
\* price-range slider, when the page has one, calls loadProducts),
\* cartManager.initialize (validateCart) and productAPI.loadProducts.
InitializeServices(hasPriceRange) ==
  LET l1 == IF hasPriceRange THEN loadProductsCall(products, cache, now, FALSE)
            ELSE [products |-> products, fetch |-> FALSE]
      v  == validateCart(items, l1.products)
      l2 == loadProductsCall(l1.products, cache, now, FALSE)
      started == (IF l1.fetch THEN 1 ELSE 0) + (IF l2.fetch THEN 1 ELSE 0)
  IN
  /\ phase = "constructed"
  /\ phase' = "running"
  /\ products' = l2.products
  /\ inflight' = started
  /\ isLoading' = (started > 0)
  /\ loaded' = IF l2.fetch THEN loaded ELSE "products"
  /\ items' = v.items
  /\ result' = Returned("report", v.report)
  /\ notified' = v.events
  /\ stored' = saveToStorage(v.items, now)
  /\ lastWriter' = "this"
  /\ UNCHANGED <<now, cache, cacheStore, answer, otherItems>>

\* Time passes, up to a later instant t
Tick(t) ==
  /\ phase = "running"
  /\ t > now
  /\ now' = t
  /\ UNCHANGED <<catalogVars, cartVars, phase, answer, tabVars>>

\* A first visit: empty storage, the page has just been loaded
Init ==
  /\ now = 0
  /\ products = <<>>
  /\ cache = NoCache
  /\ cacheStore = NoCache
  /\ inflight \in {1, 2}
  /\ isLoading = TRUE
  /\ loaded = "none"
  /\ items = <<>>
  /\ stored = CartRecord(<<>>, 0)
  /\ result = Returned("report", EmptyReport)
  /\ notified = <<>>
  /\ phase = "running"
  /\ answer = NoAnswer
  /\ otherItems = <<>>
  /\ lastWriter = "this"

\* The cart within one visit
Next ==
  \/ \E p \in ProductIds, q \in AddQuantities : AddItem(p, q)
  \/ \E p \in ProductIds, q \in OptionalQuantities : RemoveItem(p, q)
  \/ \E p \in ProductIds, q \in UpdateQuantities : UpdateItemQuantity(p, q)
  \/ ClearCart
  \/ \E d \in MergeInputs : MergeCart(d)
  \/ \E d \in ImportInputs : ImportCart(d)
  \/ ValidateCart
  \/ RoundTrip
  \/ \E o \in FetchOutcomes : FetchDone(o)

Spec == Init /\ [][Next]_vars

\* Visit after visit: page loads, the clock, the catalog cache, and every cart
\* operation on a few inputs
VisitOutcomes == {Fetched(FeedA), FetchFailed}
ArrayOf(l) == [isArray |-> TRUE, items |-> l]
BlobOf(l) == [isObject |-> TRUE, isArray |-> TRUE, items |-> l]

NextVisits ==
  \/ Construct
  \/ \E h \in BOOLEAN : InitializeServices(h)
  \/ \E t \in Instants : Tick(t)
  \/ \E o \in VisitOutcomes : FetchDone(o)
  \/ \E p \in ProductIds : AddItem(p, 4)
  \/ \E p \in ProductIds : RemoveItem(p, <<>>)
  \/ \E p \in ProductIds : UpdateItemQuantity(p, 8)
  \/ ClearCart
  \/ MergeCart(ArrayOf(<<ExternalLine("p1", 5), ExternalLine("p2", 1)>>))
  \/ \E d \in {NoBlob, BlobOf(<<ExternalLine("p2", 1), ExternalLine("p2", 5)>>)} :
       ImportCart(d)
  \/ ValidateCart

SpecVisits == Init /\ [][NextVisits]_vars

\* A visit that finds whatever the browser's storage holds for the cart: no
\* record, a record of an earlier visit, or a corrupted one
StoredLists ==
  { <<>>, <<ExternalLine("p1", 5)>>,
    <<ExternalLine("p1", 5), ExternalLine("p2", 1)>> }
StoredRecords ==
  {NoRecord, CorruptRecord("unparsable"), CorruptRecord("noItemsArray")}
    \cup {CartRecord(l, t) : l \in StoredLists, t \in 0..MaxEarly}

InitStorage ==
  /\ now \in Instants
  /\ stored \in {r \in StoredRecords : r.savedAt <= now}
  /\ products = <<>>
  /\ cache = NoCache
  /\ cacheStore = NoCache
  /\ inflight = 0
  /\ isLoading = FALSE
  /\ loaded = "none"
  /\ items = <<>>
  /\ result = Returned("undefined", EmptyReport)
  /\ notified = <<>>
  /\ phase = "unloaded"
  /\ answer = NoAnswer
  /\ otherItems = <<>>
  /\ lastWriter = "this"

NextStorage ==
  \/ Construct
  \/ \E h \in BOOLEAN : InitializeServices(h)
  \/ \E o \in VisitOutcomes : FetchDone(o)
  \/ \E p \in ProductIds : AddItem(p, 4)
  \/ \E t \in Instants : Tick(t)

SpecStorage == InitStorage /\ [][NextStorage]_vars

\* The summary of the carts a visit may hold: up to two lines, with or
\* without the snapshot, against each catalog
SummaryLines ==
  UNION { {Line(id, q, <<>>), Line(id, q, <<ExternalSnapshot(id)>>)} :
            id \in ProductIds, q \in 1..MaxLineQuantity }
SummaryCarts ==
  {<<>>} \cup {<<a>> : a \in SummaryLines}
         \cup {<<a, b>> : a \in SummaryLines, b \in SummaryLines}
Catalogs ==
  {<<>>} \cup {processProducts(o.feed) : o \in {x \in FetchOutcomes : x.ok}}

InitSummary ==
  /\ now = 0
  /\ products \in Catalogs
  /\ cache = NoCache
  /\ cacheStore = IF products = <<>> THEN NoCache ELSE CacheRecord(products, 0)
  /\ inflight = 0
  /\ isLoading = FALSE
  /\ loaded = "none"
  /\ items \in SummaryCarts
  /\ stored = CartRecord(items, 0)
  /\ result = Returned("true", EmptyReport)
  /\ notified = <<"import">>
  /\ phase = "running"
  /\ answer = NoAnswer
  /\ otherItems = <<>>
  /\ lastWriter = "this"

NextSummary ==
  \/ GetCartSummary
  \/ \E p \in ProductIds : AddItem(p, 2)

SpecSummary == InitSummary /\ [][NextSummary]_vars

\* The catalog over the visits: page loads, the clock, loadProducts calls
\* of the running page and their fetches
NextCatalog ==
  \/ Construct
  \/ \E h \in BOOLEAN : InitializeServices(h)
  \/ \E f \in BOOLEAN : LoadProducts(f)
  \/ \E o \in FetchOutcomes : FetchDone(o)
  \/ \E t \in Instants : Tick(t)

SpecCatalog == Init /\ [][NextCatalog]_vars

\* The feed as it may come: one record whose numeric fields are missing,
\* whole, fractional, or strings
RawStocks ==
  {Missing, Num(0), Num(50), Num(1200), Str(1200, TRUE), Str(1200, FALSE)}
RawPopularities == {Missing, Num(8400), Num(8550), Str(9000, FALSE)}
RawRatings == {Missing, Num(450), Str(480, FALSE)}
RawPrices == {Num(10000), Num(15000), Str(15000, FALSE)}
RawFeeds ==
  { << [id |-> "p1", price |-> pr, stock |-> st, rating |-> ra,
        popularity |-> po] >> :
      pr \in RawPrices, st \in RawStocks, ra \in RawRatings,
      po \in RawPopularities }

NextFeed ==
  \/ \E feed \in RawFeeds : FetchDone(Fetched(feed))
  \/ LoadProducts(TRUE)

SpecFeed == Init /\ [][NextFeed]_vars

\* The shop's feed for the catalog queries: seven records with equal prices,
\* ratings, popularities and names among them, one without name and
\* category, one out of stock
Phones == <<"p", "h">>
Audio == <<"a", "u">>
ShopFeed ==
  << [id |-> "p1", name |-> <<"P", "x">>, description |-> <<"n", " ", "p">>,
      category |-> Phones, specs |-> << <<"x", "n">> >>,
      price |-> Num(1000), rating |-> Num(450), popularity |-> Num(9000),
      stock |-> Num(1200)],
     [id |-> "p2", name |-> <<"x", "p">>, category |-> Audio,
      price |-> Num(4999), rating |-> Num(400), popularity |-> Num(7000),
      stock |-> Num(500)],
     [id |-> "p3", name |-> <<"p", "x">>, description |-> <<"x">>,
      category |-> Phones,
      price |-> Num(1000), rating |-> Num(450), popularity |-> Num(9000),
      stock |-> Num(0)],
     [id |-> "p4", name |-> <<"n">>, description |-> <<"p", " ", "x">>,
      category |-> Audio, specs |-> << <<"N">>, <<"a", " ", "x">> >>,
      price |-> Num(4999), rating |-> Num(380), popularity |-> Num(7000),
      stock |-> Num(300)],
     [id |-> "p5",
      price |-> Num(15000), rating |-> Num(480), popularity |-> Num(8600),
      stock |-> Num(200)],
     [id |-> "p6", name |-> <<"x", "n">>, description |-> <<"P">>,
      category |-> Phones,
      price |-> Num(1000), rating |-> Num(80), popularity |-> Num(100),
      stock |-> Num(100)],
     [id |-> "p7", name |-> <<"P", "x">>, description |-> <<"n">>,
      category |-> Audio,
      price |-> Num(2500), rating |-> Num(500), popularity |-> Num(5000),
      stock |-> Num(400)] >>
QueryFeeds == {<<>>, SubSeq(ShopFeed, 1, 3), ShopFeed, Reverse(ShopFeed)}
QueryCatalogs == {processProducts(feed) : feed \in QueryFeeds}

\* The queries: single tokens, two tokens, blank ones
Tokens ==
  {<<"p">>, <<"x">>, <<"n">>, <<"P">>, <<"p", "x">>, <<"x", "n">>, <<"u", "n">>}
TwoTokens(a, b) == a \o <<" ">> \o b
Queries ==
  {<<>>, <<" ">>, <<" ", "x", " ", " ", "n", " ">>}
    \cup Tokens \cup {TwoTokens(a, b) : a \in Tokens, b \in Tokens}

SortKeys == {"price", "rating", "name", "popularity", "newest"}
Pages == {-1, 0} \cup (1..MaxPage)
PerPages == 1..MaxPerPage

NoFilters ==
  [categories |-> <<>>, priceMin |-> <<>>, priceMax |-> <<>>, rating |-> <<>>,
   inStock |-> FALSE, isNew |-> FALSE, onSale |-> FALSE]
FilterSets ==
  { NoFilters,
    [NoFilters EXCEPT !.categories = <<Phones>>, !.inStock = TRUE],
    [NoFilters EXCEPT !.priceMin = <<1000>>, !.priceMax = <<5000>>,
                      !.rating = <<400>>, !.isNew = TRUE],
    [NoFilters EXCEPT !.onSale = TRUE] }
SearchParams ==
  { [query |-> q, categories |-> f.categories, priceMin |-> f.priceMin,
     priceMax |-> f.priceMax, rating |-> f.rating, inStock |-> f.inStock,
     isNew |-> f.isNew, onSale |-> f.onSale, sortBy |-> s[1],
     sortOrder |-> s[2], page |-> page, perPage |-> perPage] :
      q \in {<<>>, <<"p">>}, f \in FilterSets,
      s \in {<<"", "">>, <<"price", "asc">>},
      page \in {0, 2}, perPage \in {0, 2} }

\* A query on the catalog in memory, outside a pending advancedSearch
Query(a) ==
  /\ phase = "running"
  /\ ~answer.pending
  /\ answer' = a
  /\ UNCHANGED <<now, catalogVars, cartVars, phase, tabVars>>

SearchProducts(query) ==
  Query(Answered("searchProducts", query, searchProducts(products, query)))

SortProducts(sortBy, order) ==
  Query(Answered("sortProducts", [sortBy |-> sortBy, order |-> order],
                 sortProducts(products, sortBy, order)))

PaginateProducts(page, perPage) ==
  Query(Answered("paginateProducts", [page |-> page, perPage |-> perPage],
                 paginateProducts(products, page, perPage)))

\* advancedSearch up to the return of its loadProducts: served from the
\* cache it goes on to its result, otherwise it is suspended on the fetch
AdvancedSearch(searchParams) ==
  LET l == loadProductsCall(products, cache, now, FALSE) IN
  /\ phase = "running"
  /\ ~answer.pending
  /\ l.fetch => inflight < MaxInflight
  /\ products' = l.products
  /\ isLoading' = (l.fetch \/ isLoading)
  /\ inflight' = IF l.fetch THEN inflight + 1 ELSE inflight
  /\ loaded' = IF l.fetch THEN loaded ELSE "products"
  /\ answer' = IF l.fetch
                 THEN [op |-> "advancedSearch", args |-> <<searchParams>>,
                       pending |-> TRUE, value |-> <<>>]
                 ELSE Answered("advancedSearch", searchParams,
                               advancedSearch(l.products, searchParams))
  /\ UNCHANGED <<now, cache, cacheStore, cartVars, phase, tabVars>>

\* The suspended advancedSearch resumes with the outcome of its fetch: when
\* loadProducts threw, so does advancedSearch (value <<>>)
AdvancedSearchResumed(outcome) ==
  /\ answer.pending
  /\ FetchEffects(outcome)
  /\ answer' = IF loaded' = "products"
                 THEN Answered("advancedSearch", answer.args[1],
                               advancedSearch(products', answer.args[1]))
                 ELSE [answer EXCEPT !.pending = FALSE]

\* A running page with its catalog loaded: on a first visit by the fetch
\* (this.cache is null), on a return visit within the day from the cache
InitQuery ==
  /\ now = 0
  /\ products \in QueryCatalogs
  /\ cacheStore = CacheRecord(products, 0)
  /\ cache \in {NoCache, cacheStore}
  /\ inflight = 0
  /\ isLoading = FALSE
  /\ loaded = "products"
  /\ items = <<>>
  /\ stored = CartRecord(<<>>, 0)
  /\ result = Returned("report", EmptyReport)
  /\ notified = <<>>
  /\ phase = "running"
  /\ answer = NoAnswer
  /\ otherItems = <<>>
  /\ lastWriter = "this"

QueryOutcomes == {Fetched(feed) : feed \in QueryFeeds} \cup {FetchFailed}

\* The text search on the loaded catalog
NextSearch == \E q \in Queries : SearchProducts(q)

SpecSearch == InitQuery /\ [][NextSearch]_vars

\* Sorting and paging the loaded catalog
NextListing ==
  \/ \E k \in SortKeys, o \in {"asc", "desc"} : SortProducts(k, o)
  \/ \E page \in Pages, perPage \in PerPages : PaginateProducts(page, perPage)

SpecListing == InitQuery /\ [][NextListing]_vars

\* advancedSearch calls, one at a time, and the fetches they wait for
NextQuery ==
  \/ \E p \in SearchParams : AdvancedSearch(p)
  \/ \E o \in QueryOutcomes : AdvancedSearchResumed(o)

SpecQuery == InitQuery /\ [][NextQuery]_vars

\* The line items of the persisted record, an absent record read as empty
StoredItems == IF stored.present THEN stored.items ELSE <<>>

\* Two tabs on the same storage key.  The second tab's cart is a Cart of its
\* own: it runs the same operations on otherItems, against whatever catalog
\* that tab has loaded, and writes the same record.
OtherTab(o) ==
  /\ phase = "running"
  /\ otherItems' = o.items
  /\ stored' = IF o.save THEN saveToStorage(o.items, now) ELSE stored
  /\ lastWriter' = IF o.save \/ o.items # otherItems THEN "other" ELSE lastWriter
  /\ UNCHANGED <<now, catalogVars, items, result, notified, phase, answer>>

TabCatalogs == {<<>>, processProducts(FeedA)}

OtherAddItem(ps, productId, quantity) ==
  \E o \in {addItem(otherItems, ps, productId, quantity)} : OtherTab(o)

OtherRemoveItem(productId, quantity) ==
  \E o \in {removeItem(otherItems, productId, quantity)} : OtherTab(o)

OtherUpdateItemQuantity(ps, productId, quantity) ==
  \E o \in {updateItemQuantity(otherItems, ps, productId, quantity)} : OtherTab(o)

OtherClearCart == OtherTab(clearCart(otherItems))

OtherMergeCart(cartData) ==
  \E o \in {mergeCart(otherItems, cartData)} : OtherTab(o)

\* The second tab is loaded: its constructor reads the record, its
\* cartManager.initialize validates the lines and saves
OtherTabLoads(ps) ==
  \E v \in {validateCart(loadFromStorage(stored, now).items, ps)} :
    OtherTab([items |-> v.items, save |-> TRUE])

InitTabs ==
  /\ now = 0
  /\ products = processProducts(FeedA)
  /\ cache = NoCache
  /\ cacheStore = CacheRecord(products, 0)
  /\ inflight = 0
  /\ isLoading = FALSE
  /\ loaded = "products"
  /\ items = <<>>
  /\ stored = CartRecord(<<>>, 0)
  /\ result = Returned("report", EmptyReport)
  /\ notified = <<>>
  /\ phase = "running"
  /\ answer = NoAnswer
  /\ otherItems = <<>>
  /\ lastWriter = "this"

NextTabs ==
  \/ \E p \in ProductIds : AddItem(p, 2)
  \/ \E p \in ProductIds, q \in {<<>>, <<2>>} : RemoveItem(p, q)
  \/ \E p \in ProductIds, q \in {6, 11} : UpdateItemQuantity(p, q)
  \/ ClearCart
  \/ MergeCart(ArrayOf(StoredItems))
  \/ MergeCart(NotAnArray)
  \/ Construct
  \/ InitializeServices(FALSE)
  \/ \E ps \in TabCatalogs, p \in ProductIds : OtherAddItem(ps, p, 4)
  \/ \E p \in ProductIds : OtherRemoveItem(p, <<>>)
  \/ \E ps \in TabCatalogs, p \in ProductIds : OtherUpdateItemQuantity(ps, p, 6)
  \/ OtherClearCart
  \/ OtherMergeCart(ArrayOf(StoredItems))
  \/ \E ps \in TabCatalogs : OtherTabLoads(ps)

SpecTabs == InitTabs /\ [][NextTabs]_vars

(***************************************************************************)
(* Properties                                                              *)
(***************************************************************************)
Errors ==
  {"InvalidArgumentError", "ProductNotFoundError", "OutOfStockError",
   "StockExceededError", "QuantityLimitError", "ItemNotFoundError",
   "InvalidCartDataError"}

\* The operation changed neither the cart nor the record and notified nobody
NothingChanged == items' = items /\ stored' = stored /\ notified' = <<>>

\* The line's product is in catalog c, in stock, with stock for its quantity
AvailableIn(c, line) ==
  LET pi == getProductById(c, line.id) IN
  pi > 0 /\ c[pi].inStock /\ c[pi].stock >= line.quantity

QuantityWithinLimits ==
  \A i \in 1..Len(items) :
    /\ items[i].quantity >= 1
    /\ items[i].quantity <= MAX_QUANTITY
    /\ LET pi == getProductById(products, items[i].id) IN
       pi > 0 => items[i].quantity <= products[pi].stock

\* A step of one of the cart's operations
CartOperation ==
  \/ \E p \in ProductIds, q \in AddQuantities : AddItem(p, q)
  \/ \E p \in ProductIds, q \in OptionalQuantities : RemoveItem(p, q)
  \/ \E p \in ProductIds, q \in UpdateQuantities : UpdateItemQuantity(p, q)
  \/ ClearCart
  \/ \E d \in MergeInputs : MergeCart(d)
  \/ \E d \in ImportInputs : ImportCart(d)
  \/ ValidateCart
  \/ RoundTrip

\* C1: after any cart operation every line's quantity is a positive integer
\* <= MAX_QUANTITY and, when its product is resolvable in the live catalog,
\* <= that product's stock.
C1_QuantityWithinLimits == [][CartOperation => QuantityWithinLimits']_vars

\* C2: the line items have pairwise distinct product ids.
C2_UniqueProductIds ==
  \A i, j \in 1..Len(items) : i # j => items[i].id # items[j].id

\* The catalogs the page load's product load may end with: the one already
\* in memory when no fetch is pending, any document of the feed otherwise
CatalogsAfterStartup ==
  IF inflight = 0 THEN {products}
  ELSE {processProducts(o.feed) : o \in {x \in VisitOutcomes : x.ok}}

\* C3: a line persisted by an earlier visit is still in the cart, with the
\* same quantity, after the startup sequence of a later visit less than 30
\* days afterwards, provided its product is still in the catalog, in stock,
\* with stock for that quantity.  Stated for a page that has the price-range
\* slider and a visitor whose earlier visit fetched the catalog, at the step
\* where the startup sequence has dealt with the cart.
C3_CartSurvivesStartup ==
  [][ (InitializeServices(TRUE) /\ stored.present /\ cacheStore.present
         /\ stored.savedAt < now
         /\ now - stored.savedAt < CART_MAX_AGE_DAYS)
      => \A i \in 1..Len(stored.items) : \A c \in CatalogsAfterStartup' :
           AvailableIn(c, stored.items[i])
             => \E j \in 1..Len(items') : items'[j] = stored.items[i] ]_vars

\* C4: after every completed cart operation the persisted record's line
\* items (an absent record read as empty) equal the in-memory line items.
C4_PersistedEqualsMemory == StoredItems = items

\* C4 witness: validateCart clamped a line and kept it, and the record holds
\* the reconciled lines
C4_Witness ==
  /\ result.value = "report"
  /\ result.report.updatedItems # <<>>
  /\ items # <<>>
  /\ stored.present /\ stored.items = items

C6_AddItemSuccess ==
  [][ \A p \in ProductIds, q \in AddQuantities :
        (AddItem(p, q) /\ result'.value = "true") =>
          LET i == findIndex(items, p)
              pi == getProductById(products, p)
          IN /\ i > 0 =>
                  /\ Len(items') = Len(items)
                  /\ items'[i].quantity = items[i].quantity + q
                  /\ \A k \in 1..Len(items) : k # i => items'[k] = items[k]
                  /\ items'[i].id = p /\ items'[i].product = items[i].product
             /\ i = 0 =>
                  /\ Len(items') = Len(items) + 1
                  /\ SubSeq(items', 1, Len(items)) = items
                  /\ items'[Len(items')].id = p
                  /\ items'[Len(items')].quantity = q
                  /\ items'[Len(items')].product =
                       << [id |-> p, price |-> products[pi].price,
                           inStock |-> products[pi].inStock] >>
             /\ stored' = CartRecord(items', now)
             /\ notified' = <<"add">> ]_vars

\* C6 witness: a second addItem summed into the line of p1 (2 + 4)
C6_Witness ==
  /\ result.value = "true"
  /\ notified = <<"add">>
  /\ getItemQuantity(items, "p1") = 6
  /\ Len(items) = 2
  /\ stored.items = items

\* C7: removeItem with no quantity, or a quantity >= the line's, deletes the
\* line; a smaller quantity decrements it by that amount; for a product not
\* in the cart it returns false and changes nothing.
C7_RemoveItem ==
  [][ \A p \in ProductIds, q \in OptionalQuantities :
        RemoveItem(p, q) =>
          LET i == findIndex(items, p) IN
          /\ i = 0 => (result'.value = "false" /\ NothingChanged)
          /\ (i > 0 /\ (q = <<>> \/ q[1] >= items[i].quantity)) =>
               /\ Len(items') = Len(items) - 1
               /\ \A k \in 1..Len(items') :
                    items'[k] = IF k < i THEN items[k] ELSE items[k + 1]
               /\ result'.value = "true"
          /\ (i > 0 /\ q # <<>> /\ q[1] < items[i].quantity) =>
               /\ Len(items') = Len(items)
               /\ items'[i].quantity = items[i].quantity - q[1]
               /\ \A k \in 1..Len(items) : k # i => items'[k] = items[k]
               /\ result'.value = "true" ]_vars

\* C7 witness: a partial removal left a line of 2 beside another line
C7_Witness ==
  /\ result.value = "true"
  /\ notified = <<"update">>
  /\ Len(items) = 2
  /\ getItemQuantity(items, "p2") = 2
  /\ stored.items = items

RECURSIVE MaxQuantityOf(_, _)
MaxQuantityOf(l, id) ==
  IF l = <<>> THEN 0
  ELSE LET rest == MaxQuantityOf(Tail(l), id) IN
       IF Head(l).id = id THEN Max(Head(l).quantity, rest) ELSE rest

\* The product ids of l in order of first occurrence
RECURSIVE FirstIds(_)
FirstIds(l) ==
  IF l = <<>> THEN <<>>
  ELSE LET front == FirstIds(SubSeq(l, 1, Len(l) - 1))
           id == l[Len(l)].id
       IN IF \E k \in 1..Len(front) : front[k] = id THEN front
          ELSE Append(front, id)

\* C9: mergeCart gives a local line whose product is in the incoming list
\* the maximum of its and the incoming quantities (not the sum), appends the
\* incoming products that have no local line, and keeps the other local lines.
C9_MergeKeepsMaximum ==
  [][ \A d \in MergeInputs :
        (MergeCart(d) /\ d.isArray) =>
          LET fresh == SelectSeq(FirstIds(d.items),
                                 LAMBDA id : findIndex(items, id) = 0)
          IN /\ Len(items') = Len(items) + Len(fresh)
             /\ \A i \in 1..Len(items) :
                  items'[i] =
                    IF findIndex(items, items[i].id) = i
                         /\ findIndex(d.items, items[i].id) > 0
                      THEN [items[i] EXCEPT
                              !.quantity = Max(@, MaxQuantityOf(d.items, items[i].id))]
                      ELSE items[i]
             /\ \A k \in 1..Len(fresh) :
                  /\ items'[Len(items) + k].id = fresh[k]
                  /\ items'[Len(items) + k].quantity = MaxQuantityOf(d.items, fresh[k])
             /\ stored' = CartRecord(items', now) ]_vars

\* C9 witness: {p1: 5, p2: 1} after a merge, p1 a line addItem had created
C9_Witness ==
  /\ notified = <<"merge">>
  /\ Len(items) = 2
  /\ items[1].id = "p1" /\ items[1].quantity = 5
  /\ items[2].id = "p2" /\ items[2].quantity = 1
  /\ products = processProducts(FeedA)

C11_RoundTrip ==
  [][ RoundTrip => (items' = items /\ result'.value = "true") ]_vars

\* C11 witness: a restored cart whose lines no incoming list holds (p1: 4
\* beside a second line)
C11_Witness ==
  /\ notified = <<"import">>
  /\ result.value = "true"
  /\ Len(items) = 2
  /\ getItemQuantity(items, "p1") = 4
  /\ stored.items = items

\* C12: constructing a Cart over a record saved more than 30 days before now
\* yields an empty cart and at once overwrites the record with the empty
\* state; a record of age <= 30 days is loaded with all its lines unchanged.
C12_ExpiredRecordDiscarded ==
  [][ (Construct /\ stored.present /\ stored.shape = "cart") =>
        IF now - stored.savedAt > CART_MAX_AGE_DAYS
          THEN items' = <<>> /\ stored' = CartRecord(<<>>, now)
          ELSE items' = stored.items /\ stored' = stored ]_vars

\* C12 witness: after construction past the thirtieth day the cart is empty
\* and the record is the empty state, written at that instant
C12_Witness ==
  /\ phase = "constructed"
  /\ now > CART_MAX_AGE_DAYS
  /\ items = <<>>
  /\ stored = CartRecord(<<>>, now)

\* C13: constructing a Cart over a corrupted record (unparsable, or items no
\* array) raises nothing: the cart starts empty and the record is replaced by
\* the empty default.
C13_CorruptRecordReset ==
  [][ (Construct /\ stored.present /\ stored.shape # "cart") =>
        /\ result'.value = "undefined"
        /\ items' = <<>>
        /\ stored' = CartRecord(<<>>, now) ]_vars

\* C13 witness: after a construction on one of the first days the record is
\* the empty default of that instant
C13_Witness ==
  /\ phase = "constructed"
  /\ now > 0 /\ now < CART_MAX_AGE_DAYS
  /\ result.value = "undefined"
  /\ items = <<>>
  /\ stored = CartRecord(<<>>, now)

\* The ids of the lines of l that satisfy Test, in order
IdsWhere(l, Test(_)) ==
  LET sel == SelectSeq(l, Test) IN [i \in 1..Len(sel) |-> sel[i].id]

\* How validateCart is to treat a line against catalog ps
Treatment(line, ps) ==
  LET pi == getProductById(ps, line.id) IN
  IF pi = 0 THEN "invalid"
  ELSE IF ~ps[pi].inStock THEN "outOfStock"
  ELSE IF line.quantity > ps[pi].stock THEN "clamped"
  ELSE "kept"

\* C14: validateCart treats every line in exactly one way: product missing ->
\* in invalidItems and dropped; out of stock -> in outOfStockItems and
\* dropped; quantity > stock -> clamped to the stock, in updatedItems, kept;
\* otherwise kept unchanged and unreported.  Afterwards every line refers to
\* an existing in-stock product with quantity <= its stock, and the kept
\* lines are in their former order.
C14_ValidateCart ==
  [][ ValidateCart =>
        LET survivors ==
              SelectSeq(items,
                        LAMBDA l : Treatment(l, products) \in {"clamped", "kept"})
            report == result'.report
        IN /\ report.invalidItems =
                IdsWhere(items, LAMBDA l : Treatment(l, products) = "invalid")
           /\ report.outOfStockItems =
                IdsWhere(items, LAMBDA l : Treatment(l, products) = "outOfStock")
           /\ report.updatedItems =
                IdsWhere(items, LAMBDA l : Treatment(l, products) = "clamped")
           /\ Len(items') = Len(survivors)
           /\ \A i \in 1..Len(survivors) :
                items'[i] =
                  IF Treatment(survivors[i], products) = "clamped"
                    THEN [survivors[i] EXCEPT
                            !.quantity =
                              products[getProductById(products, survivors[i].id)].stock]
                    ELSE survivors[i]
           /\ \A i \in 1..Len(items') : AvailableIn(products, items'[i]) ]_vars

\* C14 witness: one run clamped p1 from 5 to the stock of 3 and dropped the
\* out-of-stock p2
C14_Witness ==
  /\ result.value = "report"
  /\ result.report.updatedItems = <<"p1">>
  /\ result.report.outOfStockItems = <<"p2">>
  /\ Len(items) = 1
  /\ items[1].id = "p1" /\ items[1].quantity = 3
  /\ products = processProducts(FeedB)

\* C15: validateCart's report has isValid = false exactly when at least one
\* line was dropped (invalidItems or outOfStockItems non-empty); a run that
\* only clamps quantities, or changes nothing, returns isValid = true.
C15_IsValidIffNothingDropped ==
  [][ ValidateCart =>
        LET report == result'.report IN
        /\ report.isValid = (Len(items') = Len(items))
        /\ report.isValid =
             (report.invalidItems = <<>> /\ report.outOfStockItems = <<>>) ]_vars

\* C15 witness: a run that only clamped (p1 to the stock of 3) reported the
\* cart valid
C15_Witness ==
  /\ result.value = "report"
  /\ result.report.isValid
  /\ result.report.updatedItems = <<"p1">>
  /\ result.report.invalidItems = <<>>
  /\ result.report.outOfStockItems = <<>>
  /\ notified = <<>>
  /\ Len(items) = 1 /\ items[1].quantity = 3

C17_NoFetchWhileCacheValid ==
  [][ (/\ LoadProducts(FALSE)
       /\ cacheStore.present
       /\ now - cacheStore.timestamp < CACHE_DURATION)
      => inflight' = inflight ]_vars

\* C18: when the fetch or parse fails, load returns the cached products and
\* surfaces no error if any cache record exists; only without any cache
\* record does it fail, and then with the original fetch/parse error.
C18_FetchFailureFallsBack ==
  [][ FetchDone(FetchFailed) =>
        IF cache.present \/ cacheStore.present
          THEN loaded' = "products"
          ELSE loaded' = "FetchError" ]_vars

\* C19: a cached catalog counts as valid only while now - timestamp < 24 h:
\* a load with a record of 24 h or more in memory starts a fetch and serves
\* nothing from the cache first, at startup as well as later; the passing of
\* time by itself touches neither the cache nor the catalog.
C19_ExpiredCacheFetches ==
  [][ /\ \A f \in BOOLEAN :
           (/\ LoadProducts(f)
            /\ cache.present
            /\ now - cache.timestamp >= CACHE_DURATION)
           => (inflight' = inflight + 1 /\ products' = products)
      /\ \A h \in BOOLEAN :
           (/\ InitializeServices(h)
            /\ cache.present
            /\ now - cache.timestamp >= CACHE_DURATION)
           => (inflight' > 0 /\ products' = products)
      /\ \A t \in Instants :
           Tick(t) => UNCHANGED <<products, cache, cacheStore>> ]_vars

\* C19 witness: a page started with a record of exactly 24 h in memory has
\* served nothing from it and waits for its fetch
C19_Witness ==
  /\ phase = "running"
  /\ cache.present
  /\ now - cache.timestamp = CACHE_DURATION
  /\ cache.products # <<>>
  /\ products = <<>>
  /\ inflight > 0
  /\ isLoading

\* C20: in every normalized product the derived fields agree with the
\* normalized numeric fields: inStock <=> stock > 0, isNew <=> popularity >=
\* 85, onSale <=> (rating >= 4.5 and price > 100), whatever the raw record
\* (fields missing, fractional or strings).
C20_DerivedFieldsAgree ==
  \A i \in 1..Len(products) :
    LET p == products[i] IN
    /\ p.inStock <=> p.stock > 0
    /\ p.isNew <=> p.popularity >= 85
    /\ p.onSale <=> (p.rating >= 450 /\ p.price > 10000)

\* The members of a sequence
Members(s) == {s[i] : i \in 1..Len(s)}

\* C21: search is conjunctive: for every catalog and all tokens a and b,
\* searchProducts("a b") returns exactly the products that both
\* searchProducts("a") and searchProducts("b") return, in catalog order.
C21_SearchIsConjunctive ==
  [][ (answer'.op = "searchProducts" /\ SearchProducts(answer'.args[1])) =>
        \A a, b \in Tokens :
          answer'.args[1] = TwoTokens(a, b) =>
            \E A \in {Members(searchProducts(products, a))},
               B \in {Members(searchProducts(products, b))} :
              answer'.value[1] =
                SelectSeq(products, LAMBDA product : product \in A \cap B) ]_vars

\* A two-token search of the seven products that returns some of them, fewer
\* than either token alone
C21_Witness ==
  /\ answer.op = "searchProducts"
  /\ answer.args = <<TwoTokens(<<"x">>, <<"n">>)>>
  /\ Len(products) = 7
  /\ answer.value[1] # <<>>
  /\ Len(answer.value[1]) < Len(searchProducts(products, <<"x">>))
  /\ Len(answer.value[1]) < Len(searchProducts(products, <<"n">>))

\* The products of sorted are those of ps, each once
SamePopulation(sorted, ps) ==
  /\ Len(sorted) = Len(ps)
  /\ Members(sorted) = Members(ps)

\* C22: for every catalog and every sort key, sortProducts with order desc
\* equals the exact reverse of sortProducts with order asc; the ascending
\* sort is stable: products with equal keys appear in input order when
\* ascending and in reversed input order when descending.
C22_DescendingIsReversedAscending ==
  [][ (/\ answer'.op = "sortProducts"
       /\ SortProducts(answer'.args[1].sortBy, answer'.args[1].order)) =>
        LET sortBy == answer'.args[1].sortBy
            order == answer'.args[1].order
            sorted == answer'.value[1]
        IN
        /\ SamePopulation(sorted, products)
        /\ order = "desc" => sorted = Reverse(sortProducts(products, sortBy, "asc"))
        /\ \A i, j \in 1..Len(sorted) :
             i < j =>
               LET c == CompareBy(sorted[i], sorted[j], sortBy)
                   pi == findIndex(products, sorted[i].id)
                   pj == findIndex(products, sorted[j].id)
               IN IF order = "desc"
                    THEN c > 0 \/ (c = 0 /\ pi > pj)
                    ELSE c < 0 \/ (c = 0 /\ pi < pj) ]_vars

\* The seven products sorted by price, descending: two of equal price stand
\* next to each other, the later one of the catalog first
C22_Witness ==
  /\ answer.op = "sortProducts"
  /\ answer.args = <<[sortBy |-> "price", order |-> "desc"]>>
  /\ Len(products) = 7
  /\ Len(answer.value[1]) = 7
  /\ \E i \in 1..6 :
       /\ answer.value[1][i].price = answer.value[1][i + 1].price
       /\ findIndex(products, answer.value[1][i].id)
            > findIndex(products, answer.value[1][i + 1].id)

\* C23: paginateProducts(items, page, perPage) for page >= 1 returns the
\* slice [(page-1)*perPage, page*perPage) of the input, total = the input's
\* length, totalPages = ceil(total / perPage), hasPrev <=> page > 1 and
\* hasNext <=> page < totalPages; a page beyond totalPages yields empty items
\* (and returns, without an error).
C23_Paginate ==
  [][ (/\ answer'.op = "paginateProducts"
       /\ PaginateProducts(answer'.args[1].page, answer'.args[1].perPage)
       /\ answer'.args[1].page >= 1) =>
        LET page == answer'.args[1].page
            perPage == answer'.args[1].perPage
            r == answer'.value[1]
            first == (page - 1) * perPage
            size == Max(0, Min(Len(products), page * perPage) - first)
            \* the least number of pages that hold the whole input
            pages == CHOOSE n \in 0..Len(products) :
                       /\ n * perPage >= Len(products)
                       /\ \A m \in 0..Len(products) :
                            m * perPage >= Len(products) => n <= m
        IN
        /\ r.items = [i \in 1..size |-> products[first + i]]
        /\ r.total = Len(products)
        /\ r.totalPages = pages
        /\ r.hasPrev <=> page > 1
        /\ r.hasNext <=> page < r.totalPages
        /\ page > r.totalPages => r.items = <<>> ]_vars

\* Seven items, page 2 of 3 per page: items[3:6], hasNext, hasPrev, 3 pages
C23_Witness ==
  /\ answer.op = "paginateProducts"
  /\ answer.args = <<[page |-> 2, perPage |-> 3]>>
  /\ Len(products) = 7
  /\ answer.value[1].items = SubSeq(products, 4, 6)
  /\ answer.value[1].hasNext
  /\ answer.value[1].hasPrev
  /\ answer.value[1].totalPages = 3

\* The sum of a function of counts over its domain
RECURSIVE SumCounts(_, _)
SumCounts(counts, keys) ==
  IF keys = {} THEN 0
  ELSE LET k == CHOOSE x \in keys : TRUE
       IN counts[k] + SumCounts(counts, keys \ {k})

\* A step in which advancedSearch returns its result
AdvancedSearchReturns ==
  /\ answer'.op = "advancedSearch"
  /\ ~answer'.pending
  /\ answer'.value # <<>>
  /\ \/ AdvancedSearch(answer'.args[1])
     \/ \E o \in QueryOutcomes : AdvancedSearchResumed(o)

\* C24: in every advancedSearch result the facets are computed over the whole
\* searched-and-filtered set, not the returned page: facets.totalProducts =
\* total, the category counts sum to total, the rating histogram counts sum to
\* at most total, and the facets are the same for every page and perPage of
\* the same query and filters.
C24_FacetsOverWholeSet ==
  [][ AdvancedSearchReturns =>
        \E searchParams \in {answer'.args[1]}, r \in {answer'.value[1]} :
          LET whole == filterProducts(
                         IF searchParams.query # <<>>
                           THEN searchProducts(products', searchParams.query)
                           ELSE products',
                         r.filters)
          IN
          /\ r.paginated.total = Len(whole)
          /\ r.facets.totalProducts = r.paginated.total
          /\ SumCounts(r.facets.categories, DOMAIN r.facets.categories)
               = r.paginated.total
          /\ SumCounts(r.facets.ratingCounts, 1..5) <= r.paginated.total
          /\ r.facets = getSearchFacets(whole)
          /\ \A page \in 0..MaxPage, perPage \in 0..MaxPerPage :
               advancedSearch(products',
                 [searchParams EXCEPT !.page = page, !.perPage = perPage]).facets
                 = r.facets ]_vars

\* A result whose page holds fewer products than were found, among them one
\* that the rating histogram leaves out
C24_Witness ==
  /\ answer.op = "advancedSearch"
  /\ ~answer.pending
  /\ answer.value # <<>>
  /\ answer.args[1].perPage = 2
  /\ Len(answer.value[1].paginated.items) < answer.value[1].paginated.total
  /\ answer.value[1].facets.totalProducts = answer.value[1].paginated.total
  /\ DOMAIN answer.value[1].facets.categories = {Phones, Audio, Accessories}
  /\ SumCounts(answer.value[1].facets.ratingCounts, 1..5)
       < answer.value[1].paginated.total

\* C25: concurrent loadProducts calls are neither deduplicated nor queued: a
\* call made while another call's fetch is in flight, with no valid cache,
\* issues a fetch of its own; every fetch in flight can complete, one call
\* at a time; and each completion with a document leaves the in-memory
\* catalog and the cache record equal to that document's products, so that
\* after both they equal the result of the fetch that completed last.
C25_ConcurrentLoads ==
  [][ /\ \A f \in BOOLEAN :
           (/\ LoadProducts(f)
            /\ inflight >= 1
            /\ (f \/ ~isCacheValid(cache, now)))
           => (inflight' = inflight + 1 /\ products' = products)
      /\ inflight > 0 => ENABLED (\E o \in FetchOutcomes : FetchDone(o))
      /\ \A o \in FetchOutcomes :
           FetchDone(o) =>
             /\ inflight' = inflight - 1
             /\ o.ok =>
                  /\ products' = processProducts(o.feed)
                  /\ loaded' = "products"
                  /\ cacheStore' = CacheRecord(processProducts(o.feed), now) ]_vars

\* Of two overlapping loads without a cache one has completed, the other's
\* fetch is still in flight
C25_Witness ==
  /\ phase = "running"
  /\ ~cache.present
  /\ inflight = 1
  /\ ~isLoading
  /\ loaded = "products"
  /\ products = processProducts(FeedA)
  /\ cacheStore.present
  /\ cacheStore.products = products

\* C26: every cart operation that changes the line items notifies the
\* subscribers exactly once, after the in-memory change and the storage
\* write; an operation that fails or changes nothing (an addItem or
\* updateItemQuantity error, removeItem of an absent product, mergeCart of a
\* non-array, importCart of a malformed blob) notifies no subscriber.
C26_NotifiesOncePerChange ==
  [][ /\ (CartOperation /\ items' # items) =>
           (Len(notified') = 1 /\ StoredItems' = items')
      /\ (CartOperation /\ (result'.value \in Errors \/ result'.value = "false")) =>
           notified' = <<>>
      /\ MergeCart(NotAnArray) => notified' = <<>> ]_vars

\* C27: removeItem(productId, q) never increases a line's quantity and never
\* leaves a line with a quantity below 1, for every numeric q, 0 and the
\* negative ones included.
C27_RemoveNeverGrows ==
  [][ \A p \in ProductIds, q \in RemoveQuantities :
        (RemoveItem(p, <<q>>) /\ Len(items') = Len(items)) =>
          \A i \in 1..Len(items) :
            /\ items'[i].quantity <= items[i].quantity
            /\ items[i].quantity >= 1 => items'[i].quantity >= 1 ]_vars

\* C28: isLoading is true whenever at least one loadProducts fetch is in
\* flight and false when none is, also when two calls overlap and one
\* finishes before the other.
C28_LoadingWhileInFlight == isLoading <=> inflight > 0

\* The lines of its that are not for product p, in order
LinesOfOthers(its, p) == SelectSeq(its, LAMBDA l : l.id # p)

\* C29: addItem, removeItem and updateItemQuantity on product p leave every
\* line for another product unchanged (quantity, snapshot and relative
\* order); an existing line for p keeps its position when its quantity
\* changes, and a newly created line is appended at the end of the sequence.
\* (A call that leaves the sequence as it was keeps every line; the calls
\* looked at are those that changed it.)
C29_OtherLinesUntouched ==
  [][ \A p \in ProductIds :
        (/\ items' # items
         /\ \/ \E q \in AddQuantities : AddItem(p, q)
            \/ \E q \in OptionalQuantities : RemoveItem(p, q)
            \/ \E q \in UpdateQuantities : UpdateItemQuantity(p, q)) =>
          /\ LinesOfOthers(items', p) = LinesOfOthers(items, p)
          /\ Len(items') = Len(items) =>
               \A i \in 1..Len(items) :
                 /\ items'[i].id = items[i].id
                 /\ items'[i].product = items[i].product
                 /\ items'[i].quantity # items[i].quantity =>
                      i = findIndex(items, p)
          /\ Len(items') > Len(items) =>
               /\ findIndex(items, p) = 0
               /\ SubSeq(items', 1, Len(items)) = items
               /\ Len(items') = Len(items) + 1
               /\ items'[Len(items')].id = p ]_vars

\* A second line has been appended behind the first, and the first line's
\* quantity has been changed in place
C29_Witness ==
  /\ Len(items) = 2
  /\ items[1].id = "p2" /\ items[2].id = "p1"
  /\ items[1].quantity = 6
  /\ items[2].quantity = 2
  /\ notified = <<"update">>

\* The product ids of the lines of its
IdsOf(its) == {its[i].id : i \in 1..Len(its)}

\* C30: with two Cart instances (tabs) on the same storage key interleaving
\* their mutations, the persisted record always equals the in-memory items
\* of the instance that completed a mutation most recently (last writer
\* wins); a line that only the other instance holds is absent from storage
\* (until that instance mutates again or mergeCart is applied).
C30_LastWriterWins ==
  /\ StoredItems = (IF lastWriter = "this" THEN items ELSE otherItems)
  /\ lastWriter = "this" =>
       \A id \in IdsOf(otherItems) \ IdsOf(items) : id \notin IdsOf(StoredItems)
  /\ lastWriter = "other" =>
       \A id \in IdsOf(items) \ IdsOf(otherItems) : id \notin IdsOf(StoredItems)

\* This tab wrote last: the record holds its line and not the line that the
\* other tab added
C30_Witness ==
  /\ phase = "running"
  /\ lastWriter = "this"
  /\ IdsOf(items) = {"p1"}
  /\ IdsOf(otherItems) = {"p2"}
  /\ StoredItems = items
====
